---- MODULE Spec2Model ----
(***************************************************************************)
(* Model of the two Azure reapers of giantswarm/aws-ci-cleaner:            *)
(*   pkg/cleaner/azure/resourcegroup.go  cleanResourceGroup                *)
(*   pkg/cleaner/azure/delegatedns.go    cleanDelegateDNSRecords           *)
(*                                                                         *)
(* Strings are sequences of one-character strings, so that HasPrefix,      *)
(* Contains and the regular expression are computed, not assumed.          *)
(* Time is counted in minutes.                                             *)
(*                                                                         *)
(* A definition written right before the operator it resembles (for        *)
(* example groupShouldBeDeletedOnError before groupShouldBeDeleted) is a    *)
(* faulty variant of it, kept to show that the properties detect the fault.*)
(***************************************************************************)
EXTENDS Integers, Sequences, FiniteSets, TLC

VARIABLES
    gpc,        \* cleanResourceGroup: "idle" | "loop" | "next" | "done"
    groups,     \* the listing groupIter iterates over
    gi,         \* position of groupIter (1-based index of Value())
    gerr,       \* error returned by cleanResourceGroup ("nil" when none)
    gListErr,   \* history: groupsClient.ListComplete failed
    gExam,      \* history: per position, number of executions of the loop body
    gQueried,   \* history: per position, number of activity-log queries issued
    gEmptyOk,   \* history: per position, queries that succeeded with no event
    gDeleted,   \* history: per position, number of Delete calls issued
    gLast,      \* history: what the most recent loop body did
    gNextFails, \* history: number of failed groupIter.Next() calls
    dpc,        \* cleanDelegateDNSRecords: "idle" | "loop" | "next" | "done"
    records,    \* the listing recordsIter iterates over
    di,         \* position of recordsIter
    lastError,  \* the local variable lastError (NoError when nil)
    derr,       \* error returned by cleanDelegateDNSRecords (NoError when none)
    dListErr,   \* history: ListAllByDNSZoneComplete failed
    dExam,      \* history: per position, number of executions of the loop body
    dProbed,    \* history: per position, number of LookupHost calls
    dStale,     \* history: per position, probes that ended (resolves=false, nil)
    dDeleted,   \* history: per position, number of Delete calls issued
    dFailed,    \* history: per-record errors met so far, in order
    dLast,      \* history: what the most recent loop body did
    dNextFails  \* history: number of failed recordsIter.Next() calls

gvars == <<gpc, groups, gi, gerr, gListErr, gExam, gQueried, gEmptyOk, gDeleted, gLast, gNextFails>>
dvars == <<dpc, records, di, lastError, derr, dListErr, dExam, dProbed, dStale, dDeleted, dFailed, dLast, dNextFails>>
vars == <<gvars, dvars>>

----------------------------------------------------------------------------
(* Bounds *)

MaxGroups == 2
MaxRecords == 2
MaxNextFails == 1

----------------------------------------------------------------------------
(* Strings *)

\* strings.HasPrefix
HasPrefix(s, prefix) ==
    /\ Len(s) >= Len(prefix)
    /\ SubSeq(s, 1, Len(prefix)) = prefix

HasSuffix(s, suffix) ==
    /\ Len(s) >= Len(suffix)
    /\ SubSeq(s, Len(s) - Len(suffix) + 1, Len(s)) = suffix

\* strings.Contains
Contains(s, substr) ==
    \E k \in 0..(Len(s) - Len(substr)) : SubSeq(s, k + 1, k + Len(substr)) = substr

ZeroOf(s) == [k \in 1..Len(s) |-> 0]

\* Sequences over S of length 0..n.
RECURSIVE Listings(_, _)
Listings(S, n) ==
    IF n = 0 THEN {<<>>}
    ELSE LET shorter == Listings(S, n - 1)
         IN  shorter \cup
             {Append(l, x) : l \in {m \in shorter : Len(m) = n - 1}, x \in S}

----------------------------------------------------------------------------
(* Paged iterators of the Azure SDK (GroupListResultIterator,               *)
(* RecordSetListResultIterator).  NotDone() is true while Value() exists.   *)
(* Next() advances; "If there was an error making the request the iterator  *)
(* does not advance and the error is returned." A request is made only when *)
(* a further page exists, so Next() cannot fail on the last item.  Page     *)
(* sizes are chosen by the service: any item but the last may end a page.   *)

NotDone(i, listing) == i <= Len(listing)

IterNext(i, listing, fail) ==
    IF fail /\ i < Len(listing)
    THEN [i |-> i, err |-> TRUE]
    ELSE [i |-> i + 1, err |-> FALSE]

----------------------------------------------------------------------------
(* resourcegroup.go *)

gracePeriod == 90
Now == 100
\* deadLine := time.Now().Add(-gracePeriod).UTC()
deadLine == Now - gracePeriod

StatusNotFound == 404

CiDash == <<"c", "i", "-">>
E2e == <<"e", "2", "e">>

GroupNames ==
    { <<"c", "i", "-", "a">>,      \* "ci-a"
      <<"e", "2", "e", "b">>,      \* "e2eb"
      <<"c", "i">>,                \* "ci"
      <<"p", "r", "o", "d">> }     \* "prod"

\* Timestamps of the activity-log events of a group.
EventSets == { {}, {deadLine - 1}, {deadLine} }

Groups == [name : GroupNames, events : EventSets]

\* What groupsClient.ListComplete can list: up to MaxGroups groups, possibly
\* none; group names are unique within a subscription.
GroupListings ==
    {l \in Listings(Groups, MaxGroups) :
        \A a, b \in 1..Len(l) : a # b => l[a].name # l[b].name}

\* groupHasTestNamePrefix
groupHasTestNamePrefixNoE2e(group) == HasPrefix(group.name, CiDash)
groupHasTestNamePrefix(group) ==
    \E prefix \in {CiDash, E2e} : HasPrefix(group.name, prefix)

\* activityLogsClient.ListComplete with the filter
\* "eventTimestamp ge '<since>' and resourceGroupName eq '<name>'".
ActivityLogsListComplete(group, since, fail) ==
    IF fail THEN [err |-> TRUE, events |-> {}]
    ELSE [err |-> FALSE, events |-> {t \in group.events : t >= since}]

\* groupHasActivity: <<hasActivity, err>>
groupHasActivity(group, since, fail) ==
    LET eventIter == ActivityLogsListComplete(group, since, fail)
    IN  IF eventIter.err THEN [has |-> FALSE, err |-> TRUE]
        ELSE [has |-> eventIter.events # {}, err |-> FALSE]

\* groupShouldBeDeleted: del, err, and (history) what the query returned.
groupShouldBeDeletedOnError(group, since, fail) ==
    IF ~groupHasTestNamePrefix(group)
    THEN [del |-> FALSE, err |-> FALSE, query |-> "none"]
    ELSE LET a == groupHasActivity(group, since, fail)
         IN  IF a.err THEN [del |-> TRUE, err |-> FALSE, query |-> "err"]
             ELSE [del |-> ~a.has, err |-> FALSE,
                   query |-> IF a.has THEN "events" ELSE "empty"]
groupShouldBeDeletedNoPrefix(group, since, fail) ==
    LET a == groupHasActivity(group, since, fail)
    IN  IF a.err THEN [del |-> FALSE, err |-> TRUE, query |-> "err"]
        ELSE [del |-> ~a.has, err |-> FALSE,
              query |-> IF a.has THEN "events" ELSE "empty"]
groupShouldBeDeleted(group, since, fail) ==
    IF ~groupHasTestNamePrefix(group)
    THEN [del |-> FALSE, err |-> FALSE, query |-> "none"]
    ELSE LET a == groupHasActivity(group, since, fail)
         IN  IF a.err THEN [del |-> FALSE, err |-> TRUE, query |-> "err"]
             ELSE [del |-> ~a.has, err |-> FALSE,
                   query |-> IF a.has THEN "events" ELSE "empty"]

\* What groupsClient.Delete and groupsClient.DeleteResponder can answer:
\* callErr is the error of Delete; hasResponse, statusCode and respErr are
\* res.Response != nil, res.StatusCode and the error of DeleteResponder.
DeleteOutcomes ==
    { [callErr |-> TRUE, hasResponse |-> FALSE, statusCode |-> 0, respErr |-> FALSE] }
    \cup { [callErr |-> FALSE, hasResponse |-> FALSE, statusCode |-> 0, respErr |-> e] :
             e \in BOOLEAN }
    \cup { [callErr |-> FALSE, hasResponse |-> TRUE, statusCode |-> s, respErr |-> e] :
             s \in {200, StatusNotFound, 500}, e \in BOOLEAN }

\* Lines 42-54: "fatal" when cleanResourceGroup returns the error, else
\* "notfound" (the 404 branch) or "ok".
DeleteResultNotFoundFatal(o) ==
    IF o.callErr THEN "fatal"
    ELSE IF o.respErr THEN "fatal"
    ELSE "ok"
DeleteResultNoAbort(o) ==
    IF o.hasResponse /\ o.statusCode = StatusNotFound THEN "notfound"
    ELSE "ok"
DeleteResult(o) ==
    IF o.callErr THEN "fatal"
    ELSE IF o.hasResponse /\ o.statusCode = StatusNotFound THEN "notfound"
    ELSE IF o.respErr THEN "fatal"
    ELSE "ok"

NoOutcome == [callErr |-> FALSE, hasResponse |-> FALSE, statusCode |-> 0, respErr |-> FALSE]
NoLast == [idx |-> 0, query |-> "none", delete |-> "none", outcome |-> NoOutcome]

\* groupsClient.ListComplete and the error check of lines 23-26.
RGList ==
    /\ gpc = "idle"
    /\ dpc = "idle"
    /\ \/ /\ gpc' = "done"
          /\ gerr' = "list"
          /\ gListErr' = TRUE
          /\ UNCHANGED <<groups, gi, gExam, gQueried, gEmptyOk, gDeleted>>
       \/ \E l \in GroupListings :
            /\ groups' = l
            /\ gi' = 1
            /\ gExam' = ZeroOf(l)
            /\ gQueried' = ZeroOf(l)
            /\ gEmptyOk' = ZeroOf(l)
            /\ gDeleted' = ZeroOf(l)
            /\ gpc' = "loop"
            /\ gerr' = "nil"
            /\ gListErr' = FALSE
    /\ UNCHANGED <<gLast, gNextFails, dvars>>

\* One execution of the loop body, lines 31-57.
RGBody ==
    /\ gpc = "loop"
    /\ NotDone(gi, groups)
    /\ \E qfail \in BOOLEAN, o \in DeleteOutcomes :
         LET group == groups[gi]
             s == groupShouldBeDeleted(group, deadLine, qfail)
             d == IF ~s.err /\ s.del THEN DeleteResult(o) ELSE "none"
         IN  /\ gExam' = [gExam EXCEPT ![gi] = @ + 1]
             /\ gQueried' = [gQueried EXCEPT ![gi] = @ + (IF s.query # "none" THEN 1 ELSE 0)]
             /\ gEmptyOk' = [gEmptyOk EXCEPT ![gi] = @ + (IF s.query = "empty" THEN 1 ELSE 0)]
             /\ gDeleted' = [gDeleted EXCEPT ![gi] = @ + (IF d # "none" THEN 1 ELSE 0)]
             /\ gLast' = [idx |-> gi, query |-> s.query, delete |-> d,
                          outcome |-> IF d # "none" THEN o ELSE NoOutcome]
             /\ IF d = "fatal"
                THEN gpc' = "done" /\ gerr' = "delete"
                ELSE gpc' = "next" /\ gerr' = gerr
    /\ UNCHANGED <<groups, gi, gListErr, gNextFails, dvars>>

\* The post statement groupIter.Next() of line 30; its error is discarded.
RGNext ==
    /\ gpc = "next"
    /\ \E fail \in BOOLEAN :
         LET n == IterNext(gi, groups, fail)
         IN  /\ n.err => gNextFails < MaxNextFails
             /\ gi' = n.i
             /\ gNextFails' = gNextFails + (IF n.err THEN 1 ELSE 0)
    /\ gpc' = "loop"
    /\ UNCHANGED <<groups, gerr, gListErr, gExam, gQueried, gEmptyOk, gDeleted, gLast, dvars>>

\* groupIter.NotDone() is false: return nil, line 60.
RGReturn ==
    /\ gpc = "loop"
    /\ ~NotDone(gi, groups)
    /\ gpc' = "done"
    /\ gerr' = "nil"
    /\ UNCHANGED <<groups, gi, gListErr, gExam, gQueried, gEmptyOk, gDeleted, gLast, gNextFails, dvars>>

----------------------------------------------------------------------------
(* delegatedns.go *)

dnsFailureError == <<"S", "E", "R", "V", "F", "A", "I", "L">>        \* "SERVFAIL"
e2eterraformPrefix == <<"e", "2", "e", "t", "e", "r", "r", "a", "f", "o", "r", "m">>   \* "e2eterraform"
zoneName == <<"a", "z", "u", "r", "e", ".", "g", "i", "g", "a", "n", "t", "i", "c", ".", "i", "o">>   \* "azure.gigantic.io"
Api == <<"a", "p", "i">>
Dot == <<".">>
Westeurope == <<"w", "e", "s", "t", "e", "u", "r", "o", "p", "e">>
Germanywestcentral == <<"g", "e", "r", "m", "a", "n", "y", "w", "e", "s", "t", "c", "e", "n", "t", "r", "a", "l">>

RecordNames ==
    { <<"e", "2", "e", "t", "e", "r", "r", "a", "f", "o", "r", "m", "1">>,      \* "e2eterraform1"
      <<"e", "2", "e", "a", ".", "w", "e", "s", "t", "e", "u", "r", "o", "p", "e">>,      \* "e2ea.westeurope"
      <<"e", "2", "e", ".", "g", "e", "r", "m", "a", "n", "y", "w", "e", "s", "t", "c", "e", "n", "t", "r", "a", "l">>,      \* "e2e.germanywestcentral"
      <<"e", "2", "e", "a", ".", "w", "e", "s", "t", "e", "u", "r", "o", "p", "e", ".", "x">>,      \* "e2ea.westeurope.x"
      <<"e", "2", "e", "\n", ".", "w", "e", "s", "t", "e", "u", "r", "o", "p", "e">>,      \* "e2e\n.westeurope"
      <<"p", "r", "o", "d">> }     \* "prod"

\* What ListAllByDNSZoneComplete can list: up to MaxRecords record sets,
\* possibly none; record names are unique within the zone.
RecordListings ==
    {l \in Listings(RecordNames, MaxRecords) :
        \A a, b \in 1..Len(l) : a # b => l[a] # l[b]}

\* regexp ^e2e.*\.(westeurope|germanywestcentral)$ : "." matches any character
\* but a newline, "^" and "$" match only at the ends of the text.
RegexpMatch(s) ==
    \E region \in {Westeurope, Germanywestcentral} :
        LET tail == Dot \o region
        IN  /\ Len(s) >= Len(E2e) + Len(tail)
            /\ HasPrefix(s, E2e)
            /\ HasSuffix(s, tail)
            /\ \A k \in (Len(E2e) + 1)..(Len(s) - Len(tail)) : s[k] # "\n"

\* isCIRecord
isCIRecordPrefixOnly(s) == HasPrefix(s, E2e)
isCIRecord(s) ==
    IF HasPrefix(s, e2eterraformPrefix) THEN TRUE
    ELSE RegexpMatch(s)

\* full := fmt.Sprintf("api.%s.%s", name, zoneName)
FullName(name) == Api \o Dot \o name \o Dot \o zoneName

\* What resolver.LookupHost can answer: addresses and no error, or an error
\* (the resolver returns an empty address list with every error).
ErrorMessages ==
    { <<"S", "E", "R", "V", "F", "A", "I", "L">>,                  \* "SERVFAIL"
      <<"N", "X", "D", "O", "M", "A", "I", "N">>,                  \* "NXDOMAIN"
      <<"i", "/", "o", " ", "t", "i", "m", "e", "o", "u", "t">> }   \* "i/o timeout"

LookupAnswers ==
    { [addresses |-> n, failed |-> FALSE, message |-> <<>>] : n \in 0..1 }
    \cup { [addresses |-> 0, failed |-> TRUE, message |-> m] : m \in ErrorMessages }

\* resolvesApiName, given the answer of resolver.LookupHost(full)
resolvesApiNameNoServfail(answer) ==
    IF answer.failed
    THEN [resolves |-> FALSE, err |-> TRUE]
    ELSE [resolves |-> answer.addresses > 0, err |-> FALSE]
resolvesApiName(answer) ==
    IF answer.failed /\ ~Contains(answer.message, dnsFailureError)
    THEN [resolves |-> FALSE, err |-> TRUE]
    ELSE [resolves |-> answer.addresses > 0, err |-> FALSE]

\* dnsRecordShouldBeDeleted: del, err, and (history) how the probe ended.
dnsRecordShouldBeDeleted(name, answer) ==
    IF ~isCIRecord(name)
    THEN [del |-> FALSE, err |-> FALSE, probe |-> "none"]
    ELSE LET r == resolvesApiName(answer)
         IN  IF r.err THEN [del |-> FALSE, err |-> FALSE, probe |-> "err"]
             ELSE [del |-> ~r.resolves, err |-> FALSE,
                   probe |-> IF r.resolves THEN "resolves" ELSE "stale"]

NoError == [kind |-> "nil", idx |-> 0]
NoAnswer == [addresses |-> 0, failed |-> FALSE, message |-> <<>>]
NoDLast == [idx |-> 0, probed |-> FALSE, host |-> <<>>, answer |-> NoAnswer, delete |-> "none"]

\* dnsRecordSetsClient.ListAllByDNSZoneComplete and the check of lines 26-29.
DNSList ==
    /\ dpc = "idle"
    /\ gpc = "idle"
    /\ \/ /\ dpc' = "done"
          /\ derr' = [kind |-> "list", idx |-> 0]
          /\ dListErr' = TRUE
          /\ UNCHANGED <<records, di, dExam, dProbed, dStale, dDeleted>>
       \/ \E l \in RecordListings :
            /\ records' = l
            /\ di' = 1
            /\ dExam' = ZeroOf(l)
            /\ dProbed' = ZeroOf(l)
            /\ dStale' = ZeroOf(l)
            /\ dDeleted' = ZeroOf(l)
            /\ dpc' = "loop"
            /\ derr' = NoError
            /\ dListErr' = FALSE
    /\ UNCHANGED <<lastError, dFailed, dLast, dNextFails, gvars>>

\* The per-record outcome of lines 36-57: the error stored in lastError
\* (NoError when lastError is left alone) and whether Delete was called.
RecordStep(idx, s, delFail) ==
    IF s.err THEN [error |-> [kind |-> "check", idx |-> idx], delete |-> "none"]
    ELSE IF s.del
    THEN IF delFail
         THEN [error |-> [kind |-> "delete", idx |-> idx], delete |-> "failed"]
         ELSE [error |-> NoError, delete |-> "ok"]
    ELSE [error |-> NoError, delete |-> "none"]

\* One execution of the loop body, lines 34-57.
DNSBody ==
    /\ dpc = "loop"
    /\ NotDone(di, records)
    /\ \E answer \in LookupAnswers, delFail \in BOOLEAN :
         LET name == records[di]
             s == dnsRecordShouldBeDeleted(name, answer)
             r == RecordStep(di, s, delFail)
             probed == s.probe # "none"
         IN  /\ dExam' = [dExam EXCEPT ![di] = @ + 1]
             /\ dProbed' = [dProbed EXCEPT ![di] = @ + (IF probed THEN 1 ELSE 0)]
             /\ dStale' = [dStale EXCEPT ![di] = @ + (IF s.probe = "stale" THEN 1 ELSE 0)]
             /\ dDeleted' = [dDeleted EXCEPT ![di] = @ + (IF r.delete # "none" THEN 1 ELSE 0)]
             /\ lastError' = IF r.error # NoError THEN r.error ELSE lastError
             /\ dFailed' =
                  IF r.delete = "failed" THEN Append(dFailed, [kind |-> "delete", idx |-> di])
                  ELSE IF probed /\ answer.failed /\ answer.message # dnsFailureError
                  THEN Append(dFailed, [kind |-> "check", idx |-> di])
                  ELSE dFailed
             /\ dLast' = [idx |-> di, probed |-> probed,
                          host |-> IF probed THEN FullName(name) ELSE <<>>,
                          answer |-> IF probed THEN answer ELSE NoAnswer,
                          delete |-> r.delete]
    /\ dpc' = "next"
    /\ UNCHANGED <<records, di, derr, dListErr, dNextFails, gvars>>

\* The post statement recordsIter.Next() of line 33; its error is discarded.
DNSNext ==
    /\ dpc = "next"
    /\ \E fail \in BOOLEAN :
         LET n == IterNext(di, records, fail)
         IN  /\ n.err => dNextFails < MaxNextFails
             /\ di' = n.i
             /\ dNextFails' = dNextFails + (IF n.err THEN 1 ELSE 0)
    /\ dpc' = "loop"
    /\ UNCHANGED <<records, lastError, derr, dListErr, dExam, dProbed, dStale, dDeleted, dFailed, dLast, gvars>>

\* recordsIter.NotDone() is false: lines 61-65.
DNSReturn ==
    /\ dpc = "loop"
    /\ ~NotDone(di, records)
    /\ dpc' = "done"
    /\ derr' = lastError
    /\ UNCHANGED <<records, di, lastError, dListErr, dExam, dProbed, dStale, dDeleted, dFailed, dLast, dNextFails, gvars>>

----------------------------------------------------------------------------

Init ==
    /\ gpc = "idle" /\ groups = <<>> /\ gi = 0 /\ gerr = "nil" /\ gListErr = FALSE
    /\ gExam = <<>> /\ gQueried = <<>> /\ gEmptyOk = <<>> /\ gDeleted = <<>>
    /\ gLast = NoLast /\ gNextFails = 0
    /\ dpc = "idle" /\ records = <<>> /\ di = 0 /\ lastError = NoError /\ derr = NoError
    /\ dListErr = FALSE
    /\ dExam = <<>> /\ dProbed = <<>> /\ dStale = <<>> /\ dDeleted = <<>>
    /\ dFailed = <<>> /\ dLast = NoDLast /\ dNextFails = 0

Next ==
    \/ RGList
    \/ RGBody
    \/ RGNext
    \/ RGReturn
    \/ DNSList
    \/ DNSBody
    \/ DNSNext
    \/ DNSReturn

Spec == Init /\ [][Next]_vars

----------------------------------------------------------------------------
(* Vocabulary of the properties, stated without the operators above.       *)

\* The group names of GroupNames that start with "ci-" or "e2e".
CINamedGroups == { <<"c", "i", "-", "a">>, <<"e", "2", "e", "b">> }

\* The record names of RecordNames that start with "e2eterraform" or fully
\* match ^e2e.*\.(westeurope|germanywestcentral)$.
CINamedRecords ==
    { <<"e", "2", "e", "t", "e", "r", "r", "a", "f", "o", "r", "m", "1">>,
      <<"e", "2", "e", "a", ".", "w", "e", "s", "t", "e", "u", "r", "o", "p", "e">>,
      <<"e", "2", "e", ".", "g", "e", "r", "m", "a", "n", "y", "w", "e", "s", "t", "c", "e", "n", "t", "r", "a", "l">> }

Positions(l) == 1..Len(l)

\* The group has no activity-log event at or after the cutoff.
Quiet(group) == \A t \in group.events : t < Now - gracePeriod

StaleGroup(group) == group.name \in CINamedGroups /\ Quiet(group)

\* The most recent loop body issued Delete, and Delete or DeleteResponder
\* answered as stated.
DeleteIssued == gLast.idx # 0 /\ gLast.delete # "none"
AnsweredNotFound ==
    /\ DeleteIssued
    /\ ~gLast.outcome.callErr
    /\ gLast.outcome.hasResponse
    /\ gLast.outcome.statusCode = 404
AnsweredOtherError ==
    /\ DeleteIssued
    /\ ~AnsweredNotFound
    /\ (gLast.outcome.callErr \/ gLast.outcome.respErr)

NoLaterGroupTouched(i) ==
    \A j \in Positions(groups) :
        j > i => gExam[j] = 0 /\ gQueried[j] = 0 /\ gDeleted[j] = 0

\* How the most recent LookupHost ended.
Probed == dLast.idx # 0 /\ dLast.probed
Servfail == Probed /\ dLast.answer.failed /\ dLast.answer.message = <<"S", "E", "R", "V", "F", "A", "I", "L">>
OtherResolverError == Probed /\ dLast.answer.failed /\ ~Servfail
ZeroAddresses == Probed /\ ~dLast.answer.failed /\ dLast.answer.addresses = 0
SomeAddresses == Probed /\ ~dLast.answer.failed /\ dLast.answer.addresses > 0

----------------------------------------------------------------------------
(* Properties *)

\* C1: Delete is issued for a listed group only if its name starts with
\* "ci-" or "e2e" and its activity-log query succeeded with no event at or
\* after the cutoff; a group without the prefix is neither queried nor
\* deleted, and a prefixed group with an event since the cutoff is never
\* deleted.
C1_DeleteOnlyStaleCIGroups ==
    /\ \A i \in Positions(groups) :
         /\ (gDeleted[i] > 0 => StaleGroup(groups[i]) /\ gDeleted[i] <= gEmptyOk[i])
         /\ (groups[i].name \notin CINamedGroups => gQueried[i] = 0 /\ gDeleted[i] = 0)
         /\ (~Quiet(groups[i]) => gDeleted[i] = 0 /\ gEmptyOk[i] = 0)
    /\ (DeleteIssued => gLast.query = "empty" /\ StaleGroup(groups[gLast.idx]))

C1_Witness ==
    /\ gpc = "done"
    /\ Len(groups) = 2
    /\ \E i, j \in Positions(groups) :
         /\ gDeleted[i] = 1
         /\ groups[j].name \in CINamedGroups /\ ~Quiet(groups[j])
         /\ gQueried[j] = 1 /\ gDeleted[j] = 0

\* C2 as stated: when the pass is over, every listed group with the prefix
\* and no event since the cutoff has had Delete issued exactly once.
C2_Original ==
    gpc = "done" =>
        \A i \in Positions(groups) : StaleGroup(groups[i]) => gDeleted[i] = 1

\* C2 amended: every execution of the loop body for a listed group with the
\* prefix and no event since the cutoff queries the activity log, and issues
\* exactly one Delete when that query succeeds and none when it fails; the
\* group is examined at least once in a pass that returns nil, and more than
\* once only after a failed cursor advance.
C2_Amended ==
    \A i \in Positions(groups) :
        StaleGroup(groups[i]) =>
            /\ gQueried[i] = gExam[i]
            /\ gDeleted[i] = gEmptyOk[i]
            /\ gEmptyOk[i] <= gQueried[i]
            /\ gExam[i] <= 1 + gNextFails
            /\ (gLast.idx = i =>
                   /\ gLast.query \in {"empty", "err"}
                   /\ (gLast.query = "empty" <=> gLast.delete # "none"))
            /\ (gpc = "done" /\ gerr = "nil" => gExam[i] >= 1)

C2_Witness ==
    /\ gpc = "done"
    /\ gerr = "nil"
    /\ Len(groups) = 2
    /\ \A i \in Positions(groups) : StaleGroup(groups[i]) /\ gDeleted[i] = 1

\* C3: a listed DNS record has Delete issued in an execution of the loop
\* body if and only if its name is a CI name and the probe of
\* api.<name>.azure.gigantic.io ended with zero addresses (an empty answer
\* or SERVFAIL); a record that is not CI-named is neither probed nor
\* deleted, and one that resolves to an address is kept.
C3_DeleteIffStaleCIRecord ==
    /\ \A i \in Positions(records) :
         /\ dDeleted[i] = dStale[i]
         /\ (records[i] \notin CINamedRecords => dProbed[i] = 0 /\ dDeleted[i] = 0)
         /\ (records[i] \in CINamedRecords => dProbed[i] = dExam[i])
    /\ (dLast.idx # 0 =>
         /\ (dLast.probed <=> records[dLast.idx] \in CINamedRecords)
         /\ (dLast.delete # "none" <=> (ZeroAddresses \/ Servfail))
         /\ (SomeAddresses => dLast.delete = "none")
         /\ (Probed =>
              dLast.host = <<"a", "p", "i", ".">> \o records[dLast.idx]
                           \o <<".", "a", "z", "u", "r", "e", ".", "g", "i", "g", "a", "n", "t", "i", "c", ".", "i", "o">>))

C3_Witness ==
    /\ dpc = "done"
    /\ Len(records) = 2
    /\ \E i, j \in Positions(records) :
         /\ dDeleted[i] = 1 /\ dExam[i] = 1
         /\ records[j] \in CINamedRecords /\ dExam[j] = 1 /\ dDeleted[j] = 0
    /\ SomeAddresses

\* C4: for a CI-named record, a SERVFAIL resolver error acts as a lookup
\* that returned zero addresses (Delete is issued), and any other resolver
\* error keeps the record: the loop body that met it issues no Delete.
C4_ServfailDeletesOtherErrorKeeps ==
    /\ (Servfail => dLast.delete # "none" /\ dStale[dLast.idx] >= 1)
    /\ (ZeroAddresses => dLast.delete # "none")
    /\ (OtherResolverError =>
         /\ dLast.delete = "none"
         /\ dDeleted[dLast.idx] < dExam[dLast.idx]
         /\ dpc \in {"next", "loop", "done"}
         /\ (dpc = "done" => \A j \in Positions(records) : dExam[j] >= 1))

C4_Witness ==
    /\ dpc = "done"
    /\ Len(records) = 2
    /\ dNextFails = 0
    /\ dDeleted[1] = 0 /\ dFailed = <<[kind |-> "check", idx |-> 1]>>
    /\ Servfail /\ dLast.idx = 2 /\ dDeleted[2] = 1

C6_DeleteErrorAborts ==
    AnsweredOtherError =>
        /\ gpc = "done"
        /\ gerr # "nil"
        /\ NoLaterGroupTouched(gLast.idx)

C6_Witness ==
    /\ AnsweredOtherError
    /\ ~gLast.outcome.callErr
    /\ gLast.idx = 1
    /\ Len(groups) = 2
    /\ StaleGroup(groups[2])

\* C7 as stated: per-record errors (a failed Delete, a resolution failure
\* other than SERVFAIL) never abort the pass, every record is examined, and
\* the function returns the error of the last record that failed: nil
\* exactly when no record had such an error.
C7_Original ==
    dpc = "done" /\ ~dListErr =>
        /\ \A j \in Positions(records) : dExam[j] >= 1
        /\ derr = IF dFailed = <<>> THEN NoError ELSE dFailed[Len(dFailed)]

\* C8: a failed activity-log query is not fatal: the loop body that met it
\* issues no Delete and returns no error, the scan moves on, and a pass that
\* ends after it has examined every listed group and deleted the later
\* stale ones.
C8_QueryFailureSkips ==
    /\ (gLast.query = "err" =>
         /\ gLast.delete = "none"
         /\ gerr = "nil"
         /\ gpc \in {"next", "loop", "done"}
         /\ gDeleted[gLast.idx] < gExam[gLast.idx])
    /\ (gpc = "done" /\ ~gListErr /\ gerr # "nil" => AnsweredOtherError)
    /\ (gpc = "done" /\ gerr = "nil" =>
         \A j \in Positions(groups) :
             /\ gExam[j] >= 1
             /\ (StaleGroup(groups[j]) /\ gEmptyOk[j] = gQueried[j] => gDeleted[j] >= 1))

C8_Witness ==
    /\ gpc = "done"
    /\ gerr = "nil"
    /\ gNextFails = 0
    /\ Len(groups) = 2
    /\ groups[1].name \in CINamedGroups
    /\ gQueried[1] = 1 /\ gEmptyOk[1] = 0 /\ Quiet(groups[1]) /\ gDeleted[1] = 0
    /\ gDeleted[2] = 1

\* C9 as stated: a failure of the initial listing call, or of advancing the
\* listing cursor, aborts the pass with a non-nil error.
C9_Original ==
    /\ (gListErr => gpc = "done" /\ gerr # "nil")
    /\ (dListErr => dpc = "done" /\ derr # NoError)
    /\ (gNextFails > 0 => gpc = "done" /\ gerr # "nil")
    /\ (dNextFails > 0 => dpc = "done" /\ derr # NoError)

\* C10 as stated: within a pass no listed item is examined or deleted a
\* second time, also when remote calls fail.
C10_Original ==
    /\ \A i \in Positions(groups) : gExam[i] <= 1 /\ gDeleted[i] <= 1
    /\ \A i \in Positions(records) : dExam[i] <= 1 /\ dDeleted[i] <= 1

====
